---- MODULE Spec2Model ----
(***************************************************************************)
(* Model of the catalog synchronisation script                             *)
(* nz-bulk-upload-adidas-women/bulk-upload-shopify-women.py:               *)
(* scrape -> reconcile against processed_skus.json -> delete by absence -> *)
(* products.jsonl -> save processed_skus.json -> staged upload ->          *)
(* admission gate -> bulkOperationRunMutation.                             *)
(*                                                                         *)
(* Environment assumptions, stated once:                                   *)
(*  - the product page fetched for listing item plu X carries plu X in its *)
(*    dataObject, so product["sku"] of a scraped record is the plu of the  *)
(*    listing item it was scraped for; every listing item has a plu;       *)
(*  - the remote catalog is changed only by this script's deletes and by   *)
(*    the bulk jobs it submitted;                                          *)
(*  - the category and brand of a record are not the word "discounted";    *)
(*  - a GraphQL answer of status 200 is a well-formed JSON body.           *)
(*                                                                         *)
(* Spec follows MaxRuns runs from any state, SpecRuns the runs that start  *)
(* with store and catalog in agreement, SpecRun one run.                   *)
(*                                                                         *)
(* The module also models the two duplicate-removal tools,                 *)
(* duplicate-delete/find_duplicate_skus.py (SpecFetch, SpecFind) and       *)
(* duplicate-delete/delete_duplicate_products.py (SpecDelete), and the     *)
(* encoding of one record by generate_product_jsonl (SpecEncode).  The     *)
(* identifiers listed in products_to_delete.json are taken to be distinct, *)
(* as find_duplicate_skus.py writes them.                                  *)
(***************************************************************************)
EXTENDS Integers, Sequences, FiniteSets, TLC

\* ------------------------------------------------------------- bounds
Ids == {"A", "B"}               \* external identifiers (plu / sku) of Spec
WideIds == {"A", "B", "C", "D"} \* external identifiers of SpecReconcile
NumUrls == 2                    \* len(URLS)
MaxPages == 1                   \* itemPageCount of a listing is 0..MaxPages
MaxPerPage == 2                 \* items on one listing page: 1..MaxPerPage
MaxRuns == 2                    \* successive runs of the script
MaxSleeps == 3                  \* sleeps of one wait the model follows

VARIABLES
    pc,                    \* position of the script
    runNo,                 \* number of runs started
    file,                  \* processed_skus.json: [st, data]
    shopify,               \* remote catalog: sku -> number of products tagged sku:<sku>
    job,                   \* remote currentBulkOperation: [status, creates]
    processed_skus,        \* in-memory identity mapping
    urlsLeft, pagesLeft, itemsLeft,
    current_jd_skus, failed_skus, all_product_data,
    skus_to_delete, todo, successfully_deleted, failed_deletions,
    gi,                    \* index of generate_product_jsonl's loop
    updates, creates, jsonl,
    latest_processed_skus,
    staged_path,
    status_info, query_failed, queries, sleeps, submits,
    hist,                  \* history of the run, read by properties only
    \* generate_product_jsonl, the encoding of one record
    record, line,          \* product (one element of product_list) and its line
    \* duplicate-delete/find_duplicate_skus.py
    finder_pc, all_products, duplicates, products_to_delete,
    shop_products,         \* the products of the remote catalog, in the order of its pages
    \* duplicate-delete/delete_duplicate_products.py
    deleter_pc, argv,
    input_file,            \* products_to_delete.json as the deleter finds it
    file_products,         \* products, the list read from products_to_delete.json
    confirmation, idx, deletion_log, log_file,
    successful, failed, catalog, dhist

\* the variables of the catalog synchronisation script
syncVars == <<pc, runNo, file, shopify, job, processed_skus, urlsLeft, pagesLeft,
              itemsLeft, current_jd_skus, failed_skus, all_product_data,
              skus_to_delete, todo, successfully_deleted, failed_deletions, gi,
              updates, creates, jsonl, latest_processed_skus, staged_path,
              status_info, query_failed, queries, sleeps, submits, hist>>

\* the variables of the encoding of one record
encodeVars == <<record, line>>

\* the variables of the duplicate finder
finderVars == <<finder_pc, all_products, duplicates, products_to_delete, shop_products>>

\* the variables of the duplicate deleter
deleterVars == <<deleter_pc, argv, input_file, file_products, confirmation, idx, deletion_log,
                 log_file, successful, failed, catalog, dhist>>

\* what a step of the synchronisation script leaves alone
toolVars == <<encodeVars, finderVars, deleterVars>>

vars == <<syncVars, toolVars>>

\* ------------------------------------------------------------- helpers
Range(s) == {s[i] : i \in 1..Len(s)}

Min(a, b) == IF a < b THEN a ELSE b

Keys(m) == DOMAIN m

EmptyMap == [k \in {} |-> 0]

\* A scraped record (product_upload_data): only the fields the
\* reconciliation reads; name is html.unescape(description).
ProductUploadData(plu) == [sku |-> plu, name |-> plu]

Skus(products) == {products[i].sku : i \in 1..Len(products)}

\* ------------------------------------------------------------- identity store
\* load_processed_skus: the parsed mapping, {} when the file is missing or
\* is not valid JSON.
load_processed_skus(f) == IF f.st = "whole" THEN f.data ELSE EmptyMap

\* lines 83-93: only FileNotFoundError and json.JSONDecodeError are caught.
\* A file that exists and cannot be opened or decoded (PermissionError,
\* IsADirectoryError, UnicodeDecodeError on bytes that are not UTF-8) makes
\* open or json.load raise past load_processed_skus and past line 759.
LoadRaises(f) == f.st = "unreadable"

\* lines 946-952: the mapping built for save_processed_skus
LatestProcessedSkus(products) ==
    [k \in Skus(products) |-> [name |-> k, processed_at |-> "null"]]

\* ------------------------------------------------------------- reconciler
\* the deletion set without the subtraction of the current identifiers
SkusToDelete_NoSubtract(previous_skus, current) == previous_skus

\* lines 922-923
SkusToDelete(previous_skus, current) == previous_skus \ current

\* the whole mapping is dropped once something was deleted
RemoveDeleted_All(m, dels) == EmptyMap

\* lines 938-941
RemoveDeleted(m, dels) == [k \in (Keys(m) \ dels) |-> m[k]]

\* the decision that never falls back to a create for a known identifier
Decision_NoFallback(sku, identity_keys, found) ==
    IF sku \in identity_keys THEN "update" ELSE "create"

\* generate_product_jsonl, lines 239-317: the decision for one record.
\* found = get_shopify_product_id returned an id.
Decision(sku, identity_keys, found) ==
    IF sku \in identity_keys
    THEN IF found THEN "update" ELSE "create"
    ELSE "create"

\* the batch with the create lines first
JsonlLines_CreatesFirst(ups, crs) ==
    [i \in 1..Len(crs) |-> [op |-> "create", sku |-> crs[i].sku]]
    \o [i \in 1..Len(ups) |-> [op |-> "update", sku |-> ups[i].sku]]

\* lines 319-395: updates first, then creates
JsonlLines(ups, crs) ==
    [i \in 1..Len(ups) |-> [op |-> "update", sku |-> ups[i].sku]]
    \o [i \in 1..Len(crs) |-> [op |-> "create", sku |-> crs[i].sku]]

\* ------------------------------------------------------------- remote
ActiveStatuses == {"CREATED", "RUNNING"}
TerminalStatuses == {"COMPLETED", "FAILED", "CANCELED"}
\* CANCELING is a status of the remote the script does not name
Statuses == ActiveStatuses \cup TerminalStatuses \cup {"CANCELING"}

\* get_shopify_product_id: an id exists only when the catalog holds a
\* product with the tag; transport and GraphQL errors return None as well.
LookupOutcomes(sku) == IF shopify[sku] > 0 THEN {TRUE, FALSE} ELSE {FALSE}

AddCopy(cat, S) == [k \in DOMAIN cat |-> IF k \in S THEN Min(cat[k] + 1, 2) ELSE cat[k]]

RunPcs == {"url", "page", "item", "delete", "generate",
           "save_open", "save_dump", "staged", "upload", "wait", "submit"}
EndPcs == {"idle", "done", "exited", "crashed"}

\* History of a run, read by the properties only.
\*   fileAtStart   the file as load_processed_skus found it
\*   reads, writes reads and writes (opens for writing) of the file
\*   saved         save_processed_skus returned
\*   callsBefore, callsAfter
\*                 kinds of remote call made before the file was opened
\*                 for writing, and from then on
\*   lookedUp, found
\*                 identifiers generate_product_jsonl looked up, and those
\*                 for which the lookup returned an id
\*   activeSeen, otherSeen
\*                 status queries answered CREATED or RUNNING, and answered
\*                 with a status the script does not name
\*   prevDone, prevCurrent
\*                 the previous run ran to its end, and its current_jd_skus
\*   changed       the catalog changed since the last classification ended
\*   changedAtGen  the value of changed when this run's classification ended
\*   lastPerItem   a lookup or a delete was requested and the run has not
\*                 slept since
\*   backToBack    the loops ("delete", "generate") in which a lookup or a
\*                 delete was requested with no sleep since the one before
\*   deleteFailed  identifiers of the deletion set whose productDelete
\*                 request failed in this run
\*   dupSkipped    the scrape loop skipped the listing item it took last
\*                 as a duplicate (line 807); FALSE outside the loop
\*   listingSkipped
\*                 the scrape loop under way skipped a listing URL (lines
\*                 768-779) or a listing page (lines 799-802); FALSE
\*                 outside the loop
NoHist == [fileAtStart |-> [st |-> "missing", data |-> EmptyMap],
           reads |-> 0, writes |-> 0, saved |-> FALSE,
           callsBefore |-> {}, callsAfter |-> {},
           lookedUp |-> {}, found |-> {},
           activeSeen |-> 0, otherSeen |-> 0,
           prevDone |-> FALSE, prevCurrent |-> {},
           changed |-> FALSE, changedAtGen |-> FALSE,
           lastPerItem |-> FALSE, backToBack |-> {}, dupSkipped |-> FALSE,
           listingSkipped |-> FALSE, deleteFailed |-> {}]

\* a remote call of the run, recorded in the history
RemoteCall(h, kind) ==
    LET g == IF kind \in {"lookup", "delete"}
             THEN [h EXCEPT !.backToBack = IF h.lastPerItem THEN @ \cup {pc} ELSE @,
                            !.lastPerItem = TRUE]
             ELSE h
    IN  IF g.writes = 0
        THEN [g EXCEPT !.callsBefore = @ \cup {kind}]
        ELSE [g EXCEPT !.callsAfter = @ \cup {kind}]

\* ------------------------------------------------------------- the other scripts at rest
\* no record is being encoded
NoProduct == [sku |-> "", name |-> "", price |-> "", previousPrice |-> "",
              gender |-> "", productType |-> "", brand |-> ""]
NoLine == [op |-> "none", sku |-> "", tags |-> <<>>]

EncodeIdle == record = NoProduct /\ line = NoLine

\* find_duplicate_skus.py has not been started
NoDuplicates == [by_sku_tag |-> <<>>, products_without_sku_tag |-> <<>>]

FinderIdle ==
    /\ finder_pc = "idle"
    /\ all_products = <<>>
    /\ duplicates = NoDuplicates
    /\ products_to_delete = <<>>
    /\ shop_products = <<>>

\* delete_duplicate_products.py has not been started
NoLog == [total_products |-> 0, successful_deletions |-> <<>>,
          failed_deletions |-> <<>>, completed_at |-> FALSE]
NoLogFile == [st |-> "missing", log |-> NoLog]
\* History of a run of the deleter, read by the properties only.
\*   calls          productDelete requests made
\*   lastStep       the last of "call" (a productDelete request) and
\*                  "sleep" (time.sleep of line 136)
\*   backToBack     two requests were made with no sleep between them
\*   writes         times the log file was opened for writing
\*   checkpoint     idx at the last checkpoint (line 139) that was begun
\*   fileAtStart, catalogAtStart
\*                  the log file and the remote catalog as the run found them
NoDhist == [calls |-> 0, lastStep |-> "none", backToBack |-> FALSE,
            writes |-> 0, checkpoint |-> 0, fileAtStart |-> NoLogFile,
            catalogAtStart |-> {}]

DeleterIdle ==
    /\ deleter_pc = "idle"
    /\ argv = ""
    /\ input_file = [st |-> "missing", list |-> <<>>]
    /\ file_products = <<>> /\ confirmation = ""
    /\ idx = 0
    /\ deletion_log = NoLog
    /\ log_file = NoLogFile
    /\ successful = 0 /\ failed = 0
    /\ catalog = {}
    /\ dhist = NoDhist

ToolsIdle == EncodeIdle /\ FinderIdle /\ DeleterIdle

\* ------------------------------------------------------------- Init
\* no run is under way: the store file, the remote catalog and the remote
\* bulk operation are in any state
BetweenRuns ==
    /\ pc = "idle"
    /\ \E K \in SUBSET Ids :
         file \in {[st |-> "missing", data |-> EmptyMap],
                   [st |-> "unreadable", data |-> EmptyMap],
                   [st |-> "whole", data |-> [k \in K |-> [name |-> k, processed_at |-> "null"]]]}
    /\ shopify \in [Ids -> {0, 1}]
    /\ job \in {[status |-> "NONE", creates |-> {}], [status |-> "RUNNING", creates |-> {}]}
    /\ processed_skus = EmptyMap
    /\ urlsLeft = 0 /\ pagesLeft = 0 /\ itemsLeft = 0
    /\ current_jd_skus = {} /\ failed_skus = {} /\ all_product_data = <<>>
    /\ skus_to_delete = {} /\ todo = {}
    /\ successfully_deleted = 0 /\ failed_deletions = 0
    /\ gi = 1
    /\ updates = <<>> /\ creates = <<>> /\ jsonl = <<>>
    /\ latest_processed_skus = EmptyMap
    /\ staged_path = FALSE
    /\ status_info = "unset" /\ query_failed = FALSE
    /\ queries = 0 /\ sleeps = 0 /\ submits = 0
    /\ hist = NoHist
    /\ ToolsIdle

Init == runNo = 0 /\ BetweenRuns

\* ------------------------------------------------------------- the run
\* lines 754-762: a run starts, load_processed_skus reads the file once;
\* the run ends there when the read raises
StartRun ==
    /\ pc \in EndPcs
    /\ runNo < MaxRuns
    /\ runNo' = runNo + 1
    /\ processed_skus' = load_processed_skus(file)
    /\ urlsLeft' = NumUrls /\ pagesLeft' = 0 /\ itemsLeft' = 0
    /\ current_jd_skus' = {} /\ failed_skus' = {} /\ all_product_data' = <<>>
    /\ skus_to_delete' = {} /\ todo' = {}
    /\ successfully_deleted' = 0 /\ failed_deletions' = 0
    /\ gi' = 1
    /\ updates' = <<>> /\ creates' = <<>> /\ jsonl' = <<>>
    /\ latest_processed_skus' = EmptyMap
    /\ staged_path' = FALSE
    /\ status_info' = "unset" /\ query_failed' = FALSE
    /\ queries' = 0 /\ sleeps' = 0 /\ submits' = 0
    /\ hist' = [NoHist EXCEPT !.fileAtStart = file, !.reads = 1,
                              !.prevDone = (pc = "done"),
                              !.prevCurrent = IF pc = "done" THEN current_jd_skus ELSE {},
                              !.changed = hist.changed]
    /\ pc' = IF LoadRaises(file) THEN "crashed" ELSE "url"
    /\ UNCHANGED <<file, shopify, job, toolVars>>

scrapeUnchanged == <<runNo, file, shopify, job, processed_skus, skus_to_delete, todo,
                     successfully_deleted, failed_deletions, gi, updates, creates,
                     jsonl, latest_processed_skus, staged_path, status_info,
                     query_failed, queries, sleeps, submits, toolVars>>

\* lines 764-783: one listing URL is fetched
FetchUrl ==
    /\ pc = "url" /\ urlsLeft > 0
    /\ urlsLeft' = urlsLeft - 1
    /\ \/ \* request error or missing dataObject: the URL is skipped
          /\ pagesLeft' = 0 /\ pc' = "url"
          /\ hist' = [hist EXCEPT !.listingSkipped = TRUE]
       \/ \* itemPageCount pages follow
          \E n \in 0..MaxPages :
             /\ pagesLeft' = n
             /\ pc' = IF n = 0 THEN "url" ELSE "page"
             /\ UNCHANGED hist
    /\ UNCHANGED <<itemsLeft, current_jd_skus, failed_skus, all_product_data>>
    /\ UNCHANGED scrapeUnchanged

\* lines 784-802: one listing page is fetched
FetchPage ==
    /\ pc = "page" /\ pagesLeft > 0
    /\ \/ \* lines 789-798: sys.exit(1)
          /\ pc' = "exited"
          /\ UNCHANGED <<pagesLeft, itemsLeft, hist>>
       \/ \* lines 799-802: no items in the dataObject, the page is skipped
          /\ pagesLeft' = pagesLeft - 1
          /\ pc' = IF pagesLeft = 1 THEN "url" ELSE "page"
          /\ hist' = [hist EXCEPT !.listingSkipped = TRUE]
          /\ UNCHANGED itemsLeft
       \/ \* the page lists 1..MaxPerPage items
          \E n \in 1..MaxPerPage :
             /\ itemsLeft' = n
             /\ pc' = "item"
             /\ UNCHANGED <<pagesLeft, hist>>
    /\ UNCHANGED <<urlsLeft, current_jd_skus, failed_skus, all_product_data>>
    /\ UNCHANGED scrapeUnchanged

\* end of the loop body at line 803: the next item, page or URL
AfterItem ==
    /\ itemsLeft' = itemsLeft - 1
    /\ pagesLeft' = IF itemsLeft = 1 THEN pagesLeft - 1 ELSE pagesLeft
    /\ pc' = IF itemsLeft > 1 THEN "item"
             ELSE IF pagesLeft > 1 THEN "page" ELSE "url"

\* no listing item is taken for a duplicate
IsDuplicatePlu_Never(plu, seen) == FALSE

\* line 805: the PLU of the item was met before in this run
IsDuplicatePlu(plu, seen) == plu \in seen

\* lines 803-917: one listing item
ProcessItem ==
    /\ pc = "item" /\ itemsLeft > 0
    /\ \E plu \in Ids :
         \/ \* lines 805-807: duplicate PLU
            /\ IsDuplicatePlu(plu, current_jd_skus)
            /\ AfterItem
            /\ hist' = [hist EXCEPT !.dupSkipped = TRUE]
            /\ UNCHANGED <<current_jd_skus, failed_skus, all_product_data>>
         \/ \* lines 816-872: a caught failure, the record is skipped
            /\ ~IsDuplicatePlu(plu, current_jd_skus)
            /\ current_jd_skus' = current_jd_skus \cup {plu}
            /\ failed_skus' = failed_skus \cup {plu}
            /\ AfterItem
            /\ hist' = [hist EXCEPT !.dupSkipped = FALSE]
            /\ UNCHANGED all_product_data
         \/ \* lines 893-916: the record is scraped
            /\ ~IsDuplicatePlu(plu, current_jd_skus)
            /\ current_jd_skus' = current_jd_skus \cup {plu}
            /\ all_product_data' = Append(all_product_data, ProductUploadData(plu))
            /\ AfterItem
            /\ hist' = [hist EXCEPT !.dupSkipped = FALSE]
            /\ UNCHANGED failed_skus
         \/ \* line 876: the product page has no dataObject, product_data is
            \* None and product_data.get raises outside every try
            /\ ~IsDuplicatePlu(plu, current_jd_skus)
            /\ current_jd_skus' = current_jd_skus \cup {plu}
            /\ pc' = "crashed"
            /\ hist' = [hist EXCEPT !.dupSkipped = FALSE]
            /\ UNCHANGED <<itemsLeft, pagesLeft, failed_skus, all_product_data>>
    /\ UNCHANGED urlsLeft
    /\ UNCHANGED scrapeUnchanged

\* lines 921-933: the scrape loop is over, the deletion set
Reconcile ==
    /\ pc = "url" /\ urlsLeft = 0
    /\ skus_to_delete' = SkusToDelete(Keys(processed_skus), current_jd_skus)
    /\ todo' = skus_to_delete'
    /\ hist' = [hist EXCEPT !.dupSkipped = FALSE, !.listingSkipped = FALSE]
    /\ pc' = IF skus_to_delete' # {} THEN "delete" ELSE "generate"
    /\ UNCHANGED <<runNo, file, shopify, job, processed_skus, urlsLeft, pagesLeft,
                   itemsLeft, current_jd_skus, failed_skus, all_product_data,
                   successfully_deleted, failed_deletions, gi, updates, creates,
                   jsonl, latest_processed_skus, staged_path, status_info,
                   query_failed, queries, sleeps, submits, toolVars>>

deleteUnchanged == <<runNo, file, job, urlsLeft, pagesLeft,
                     itemsLeft, current_jd_skus, failed_skus, all_product_data,
                     skus_to_delete, gi, updates, creates,
                     jsonl, latest_processed_skus, staged_path, status_info,
                     query_failed, queries, sleeps, submits, toolVars>>

\* the loop that gives up at the first identifier it could not delete
Remaining_StopOnFailure(left, sku, deleted) == IF deleted THEN left \ {sku} ELSE {}

\* lines 180, 186, 205, 209: the for loop goes on to the next identifier
\* whatever the outcome, every failure path ends in continue or falls
\* through to the end of the body
Remaining(left, sku, deleted) == left \ {sku}

\* delete_products_from_shopify, lines 180-223: one identifier
DeleteOne ==
    /\ pc = "delete" /\ todo # {}
    /\ \E sku \in todo :
         /\ \E found \in LookupOutcomes(sku) :
              \/ \* lines 183-186: no product id
                 /\ ~found
                 /\ failed_deletions' = failed_deletions + 1
                 /\ todo' = Remaining(todo, sku, FALSE)
                 /\ hist' = RemoteCall(hist, "lookup")
                 /\ UNCHANGED <<shopify, successfully_deleted>>
              \/ \* lines 203-217, 221-223: the delete request failed
                 /\ found
                 /\ failed_deletions' = failed_deletions + 1
                 /\ todo' = Remaining(todo, sku, FALSE)
                 /\ hist' = [RemoteCall(RemoteCall(hist, "lookup"), "delete")
                               EXCEPT !.deleteFailed = @ \cup {sku}]
                 /\ UNCHANGED <<shopify, successfully_deleted>>
              \/ \* lines 218-220: deleted
                 /\ found
                 /\ todo' = Remaining(todo, sku, TRUE)
                 /\ \E left \in (IF shopify[sku] = 2 THEN {1, 2} ELSE {0}) :
                      shopify' = [shopify EXCEPT ![sku] = left]
                 /\ successfully_deleted' = successfully_deleted + 1
                 /\ hist' = [RemoteCall(RemoteCall(hist, "lookup"), "delete")
                               EXCEPT !.changed = TRUE]
                 /\ UNCHANGED failed_deletions
    /\ UNCHANGED <<pc, processed_skus>>
    /\ UNCHANGED deleteUnchanged

\* lines 225-228 and 937-941: the loop is over, the summary is printed,
\* the one time.sleep(0.1) of the function follows, and the deleted keys
\* are removed from the in-memory mapping
DeleteReturn ==
    /\ pc = "delete" /\ todo = {}
    /\ processed_skus' = RemoveDeleted(processed_skus, skus_to_delete)
    /\ hist' = [hist EXCEPT !.lastPerItem = FALSE]
    /\ pc' = "generate"
    /\ UNCHANGED <<shopify, todo, successfully_deleted, failed_deletions>>
    /\ UNCHANGED deleteUnchanged

genUnchanged == <<runNo, file, shopify, job, processed_skus, urlsLeft, pagesLeft,
                  itemsLeft, current_jd_skus, failed_skus, all_product_data,
                  skus_to_delete, todo, successfully_deleted, failed_deletions,
                  staged_path, status_info, query_failed, queries, sleeps, submits,
                  toolVars>>

\* generate_product_jsonl, lines 235-317: one record is classified
GenOne ==
    /\ pc = "generate" /\ gi <= Len(all_product_data)
    /\ LET product == all_product_data[gi]
           parent_sku == product.sku
       IN  \/ \* line 239 true: the remote is asked for the product id
              /\ parent_sku \in Keys(processed_skus)
              /\ \E found \in LookupOutcomes(parent_sku) :
                   /\ hist' = [RemoteCall(hist, "lookup") EXCEPT
                                 !.lookedUp = @ \cup {parent_sku},
                                 !.found = IF found THEN @ \cup {parent_sku} ELSE @]
                   /\ IF Decision(parent_sku, Keys(processed_skus), found) = "update"
                      THEN updates' = Append(updates, product) /\ UNCHANGED creates
                      ELSE creates' = Append(creates, product) /\ UNCHANGED updates
           \/ \* lines 314-317
              /\ parent_sku \notin Keys(processed_skus)
              /\ IF Decision(parent_sku, Keys(processed_skus), FALSE) = "update"
                 THEN updates' = Append(updates, product) /\ UNCHANGED creates
                 ELSE creates' = Append(creates, product) /\ UNCHANGED updates
              /\ UNCHANGED hist
    /\ gi' = gi + 1
    /\ UNCHANGED <<pc, jsonl, latest_processed_skus>>
    /\ UNCHANGED genUnchanged

\* the run without the save of line 955
AfterGenerate_NoSave == "staged"

\* lines 943-955: save_processed_skus follows generate_product_jsonl
AfterGenerate == "save_open"

\* lines 319-398 and 946-952: products.jsonl is written, the new mapping built
WriteJsonl ==
    /\ pc = "generate" /\ gi > Len(all_product_data)
    /\ jsonl' = JsonlLines(updates, creates)
    /\ latest_processed_skus' = LatestProcessedSkus(all_product_data)
    /\ hist' = [hist EXCEPT !.changedAtGen = hist.changed, !.changed = FALSE]
    /\ pc' = AfterGenerate
    /\ UNCHANGED <<gi, updates, creates>>
    /\ UNCHANGED genUnchanged

tailUnchanged == <<runNo, processed_skus, urlsLeft, pagesLeft,
                   itemsLeft, current_jd_skus, failed_skus, all_product_data,
                   skus_to_delete, todo, successfully_deleted, failed_deletions,
                   gi, updates, creates, jsonl, latest_processed_skus, toolVars>>

\* save_processed_skus, line 97: open(..., "w") truncates the file
SaveOpen ==
    /\ pc = "save_open"
    /\ file' = [st |-> "partial", data |-> EmptyMap]
    /\ hist' = [hist EXCEPT !.writes = @ + 1]
    /\ pc' = "save_dump"
    /\ UNCHANGED <<shopify, job, staged_path, status_info, query_failed, queries,
                   sleeps, submits>>
    /\ UNCHANGED tailUnchanged

\* save_processed_skus, lines 98-99: json.dump, the file is closed
SaveDump ==
    /\ pc = "save_dump"
    /\ file' = [st |-> "whole", data |-> latest_processed_skus]
    /\ hist' = [hist EXCEPT !.saved = TRUE]
    /\ pc' = "staged"
    /\ UNCHANGED <<shopify, job, staged_path, status_info, query_failed, queries,
                   sleeps, submits>>
    /\ UNCHANGED tailUnchanged

\* lines 957-975 and create_staged_upload
Staged ==
    /\ pc = "staged"
    /\ \/ \* line 973 false: nothing to upload
          /\ all_product_data = <<>>
          /\ pc' = "done"
          /\ UNCHANGED hist
       \/ \* create_staged_upload returned None
          /\ all_product_data # <<>>
          /\ hist' = RemoteCall(hist, "staged")
          /\ pc' = "done"
       \/ \* a staged target
          /\ all_product_data # <<>>
          /\ hist' = RemoteCall(hist, "staged")
          /\ pc' = "upload"
    /\ UNCHANGED <<file, shopify, job, staged_path, status_info, query_failed,
                   queries, sleeps, submits>>
    /\ UNCHANGED tailUnchanged

\* the gate is entered whatever the upload returned
AfterUpload_Always(key) == "wait"

\* lines 977-980: run_bulk_product_set_with_queue is called only with a
\* reference key
AfterUpload(key) == IF key THEN "wait" ELSE "done"

\* upload_to_staged_url, lines 976-980
Upload ==
    /\ pc = "upload"
    /\ hist' = RemoteCall(hist, "upload")
    /\ \/ \* the upload failed, None is returned
          UNCHANGED staged_path
       \/ \* the reference key
          staged_path' = TRUE
    /\ pc' = AfterUpload(staged_path')
    /\ UNCHANGED <<file, shopify, job, status_info, query_failed, queries, sleeps,
                   submits>>
    /\ UNCHANGED tailUnchanged

\* only a completed operation frees the slot
IsTerminal_CompletedOnly(status) == status = "COMPLETED"

\* a running operation frees the slot as well
IsTerminal_OrRunning(status) == status \in {"COMPLETED", "FAILED", "CANCELED", "RUNNING"}

\* line 653
IsTerminal(status) == status \in {"COMPLETED", "FAILED", "CANCELED"}

\* wait_for_bulk_operation_completion, lines 643-666: one iteration of the
\* loop, check_bulk_operation_status and the sleep that follows it
Poll ==
    /\ pc = "wait"
    /\ queries' = queries + 1
    /\ \/ \* lines 622-631: the query failed, check_bulk_operation_status
          \* returns None
          /\ status_info' = "None" /\ query_failed' = TRUE
          /\ hist' = RemoteCall(hist, "status")
          /\ pc' = "submit"
          /\ UNCHANGED sleeps
       \/ \* currentBulkOperation is null
          /\ job.status = "NONE"
          /\ status_info' = "None" /\ query_failed' = FALSE
          /\ hist' = RemoteCall(hist, "status")
          /\ pc' = "submit"
          /\ UNCHANGED sleeps
       \/ \* lines 653-655
          /\ job.status # "NONE" /\ IsTerminal(job.status)
          /\ status_info' = job.status /\ query_failed' = FALSE
          /\ hist' = [RemoteCall(hist, "status") EXCEPT
                        !.activeSeen = IF job.status \in ActiveStatuses THEN @ + 1 ELSE @]
          /\ pc' = "submit"
          /\ UNCHANGED sleeps
       \/ \* lines 656-666: sleep, then query again
          /\ job.status # "NONE" /\ ~IsTerminal(job.status)
          /\ sleeps < MaxSleeps
          /\ status_info' = job.status /\ query_failed' = FALSE
          /\ hist' = [RemoteCall(hist, "status") EXCEPT
                        !.activeSeen = IF job.status \in ActiveStatuses THEN @ + 1 ELSE @,
                        !.otherSeen = IF job.status \in ActiveStatuses \cup TerminalStatuses
                                      THEN @ ELSE @ + 1]
          /\ sleeps' = sleeps + 1
          /\ pc' = "wait"
    /\ UNCHANGED <<file, shopify, job, staged_path, submits>>
    /\ UNCHANGED tailUnchanged

\* the skus of the create lines of a batch
CreateSkus(lines) == {lines[i].sku : i \in {j \in 1..Len(lines) : lines[j].op = "create"}}

\* run_bulk_product_set_with_queue, lines 679-752: bulkOperationRunMutation
Submit ==
    /\ pc = "submit"
    /\ submits' = submits + 1
    /\ hist' = RemoteCall(hist, "submit")
    /\ \/ \* lines 727-732: the request failed
          UNCHANGED job
       \/ \* lines 734-740: the remote refuses, a bulk mutation is in progress
          /\ job.status \notin ({"NONE"} \cup TerminalStatuses)
          /\ UNCHANGED job
       \/ \* lines 742-746: the bulk operation is created
          /\ job.status \in ({"NONE"} \cup TerminalStatuses)
          /\ job' = [status |-> "CREATED", creates |-> CreateSkus(jsonl)]
    /\ pc' = "done"
    /\ UNCHANGED <<file, shopify, staged_path, status_info, query_failed, queries, sleeps>>
    /\ UNCHANGED tailUnchanged

\* The remote runs its bulk operation; a completed operation has created
\* one product for every create line.
RemoteJobProgress ==
    /\ \/ /\ job.status = "CREATED"
          /\ job' = [job EXCEPT !.status = "RUNNING"]
          /\ UNCHANGED <<shopify, hist>>
       \/ /\ job.status = "RUNNING"
          /\ job' = [status |-> "COMPLETED", creates |-> {}]
          /\ shopify' = AddCopy(shopify, job.creates)
          /\ hist' = [hist EXCEPT !.changed = @ \/ (shopify' # shopify)]
       \/ /\ job.status = "RUNNING"
          /\ \E s \in {"FAILED", "CANCELING"} : job' = [status |-> s, creates |-> {}]
          /\ UNCHANGED <<shopify, hist>>
       \/ /\ job.status = "CANCELING"
          /\ job' = [job EXCEPT !.status = "CANCELED"]
          /\ UNCHANGED <<shopify, hist>>
    /\ UNCHANGED <<pc, file, staged_path, status_info, query_failed, queries, sleeps,
                   submits>>
    /\ UNCHANGED tailUnchanged

\* The process dies (an uncaught exception, a kill) anywhere in a run.
Crash ==
    /\ pc \in RunPcs
    /\ pc' = "crashed"
    /\ \/ /\ pc # "save_dump"
          /\ UNCHANGED file
       \/ \* inside json.dump: any part of the mapping may have reached the file
          /\ pc = "save_dump"
          /\ \E S \in SUBSET Keys(latest_processed_skus) :
               /\ S # Keys(latest_processed_skus) \/ S = {}
               /\ file' = [st |-> "partial", data |-> [k \in S |-> latest_processed_skus[k]]]
    /\ UNCHANGED <<shopify, job, staged_path, status_info, query_failed, queries,
                   sleeps, submits, hist>>
    /\ UNCHANGED tailUnchanged

Next ==
    \/ StartRun
    \/ FetchUrl
    \/ FetchPage
    \/ ProcessItem
    \/ Reconcile
    \/ DeleteOne
    \/ DeleteReturn
    \/ GenOne
    \/ WriteJsonl
    \/ SaveOpen
    \/ SaveDump
    \/ Staged
    \/ Upload
    \/ Poll
    \/ Submit
    \/ RemoteJobProgress
    \/ Crash

Spec == Init /\ [][Next]_vars

\* ------------------------------------------------------------- runs from a consistent state
\* The runs that start where a completed run leaves the system: the
\* identity store holds exactly the identifiers that have a product in the
\* remote catalog, one product each, and no bulk operation is under way.
InitRuns ==
    /\ Init
    /\ file.st = "whole"
    /\ Keys(file.data) = {k \in Ids : shopify[k] = 1}
    /\ job.status = "NONE"

SpecRuns == InitRuns /\ [][Next]_vars

\* ------------------------------------------------------------- one run
\* One run of the script, started in any state of the store file, the
\* remote catalog and the remote bulk operation: the counter of runs
\* starts where one run is left to follow.
InitRun == runNo = MaxRuns - 1 /\ BetweenRuns

SpecRun == InitRun /\ [][Next]_vars

\* ------------------------------------------------------------- reconciliation alone
\* The states in which the scrape loop of a first run has ended (line 921),
\* over the wider identifier set: every identity store, every set of listed
\* identifiers, every split of it into scraped and failed records and every
\* order of the scraped records.
DistinctSeqs(S) ==
    {q \in UNION {[1..n -> S] : n \in 0..Cardinality(S)} :
        \A i, j \in 1..Len(q) : i # j => q[i] # q[j]}

InitReconcile ==
    /\ pc = "url"
    /\ runNo = 1
    /\ \E K \in SUBSET WideIds :
         file = [st |-> "whole", data |-> [k \in K |-> [name |-> k, processed_at |-> "null"]]]
    /\ \E n \in {0, 1} : shopify = [k \in WideIds |-> n]
    /\ job = [status |-> "NONE", creates |-> {}]
    /\ processed_skus = load_processed_skus(file)
    /\ urlsLeft = 0 /\ pagesLeft = 0 /\ itemsLeft = 0
    /\ current_jd_skus \in SUBSET WideIds
    /\ \E q \in DistinctSeqs(current_jd_skus) :
         /\ all_product_data = [i \in 1..Len(q) |-> ProductUploadData(q[i])]
         /\ failed_skus = current_jd_skus \ Range(q)
    /\ skus_to_delete = {} /\ todo = {}
    /\ successfully_deleted = 0 /\ failed_deletions = 0
    /\ gi = 1
    /\ updates = <<>> /\ creates = <<>> /\ jsonl = <<>>
    /\ latest_processed_skus = EmptyMap
    /\ staged_path = FALSE
    /\ status_info = "unset" /\ query_failed = FALSE
    /\ queries = 0 /\ sleeps = 0 /\ submits = 0
    /\ hist = [NoHist EXCEPT !.fileAtStart = file, !.reads = 1]
    /\ ToolsIdle

NextReconcile ==
    \/ Reconcile
    \/ DeleteOne
    \/ DeleteReturn
    \/ GenOne
    \/ WriteJsonl
    \/ SaveOpen
    \/ SaveDump

SpecReconcile == InitReconcile /\ [][NextReconcile]_vars

\* ------------------------------------------------------------- the gate alone
\* The states in which run_bulk_product_set_with_queue is entered (line
\* 978) in a first run that found no identity store, so that every scraped
\* record is a create; the remote bulk operation is in any state.
InitGate ==
    /\ pc = "wait"
    /\ runNo = 1
    /\ shopify \in [Ids -> {0, 1}]
    /\ \E st \in {"NONE"} \cup Statuses : job = [status |-> st, creates |-> {}]
    /\ processed_skus = EmptyMap
    /\ urlsLeft = 0 /\ pagesLeft = 0 /\ itemsLeft = 0
    /\ \E q \in DistinctSeqs(Ids) :
         /\ q # <<>>
         /\ all_product_data = [i \in 1..Len(q) |-> ProductUploadData(q[i])]
    /\ current_jd_skus = Skus(all_product_data)
    /\ failed_skus = {}
    /\ skus_to_delete = {} /\ todo = {}
    /\ successfully_deleted = 0 /\ failed_deletions = 0
    /\ gi = Len(all_product_data) + 1
    /\ updates = <<>> /\ creates = all_product_data
    /\ jsonl = JsonlLines(updates, creates)
    /\ latest_processed_skus = LatestProcessedSkus(all_product_data)
    /\ file = [st |-> "whole", data |-> latest_processed_skus]
    /\ staged_path = TRUE
    /\ status_info = "unset" /\ query_failed = FALSE
    /\ queries = 0 /\ sleeps = 0 /\ submits = 0
    /\ hist = [NoHist EXCEPT !.reads = 1, !.writes = 1, !.saved = TRUE,
                             !.callsAfter = {"staged", "upload"}]
    /\ ToolsIdle

NextGate ==
    \/ Poll
    \/ Submit
    \/ RemoteJobProgress

\* The script is one thread that runs on: a status query that can be
\* answered is eventually answered, and the submission that is due is
\* eventually made.  Nothing is assumed of the remote job: it may stay
\* active for ever.  (A wait that has slept MaxSleeps times on an active job
\* is not followed further; the fairness does not force a failed query.)
SpecGate ==
    InitGate /\ [][NextGate]_vars
    /\ WF_vars(Poll /\ ~query_failed') /\ WF_vars(Submit)

\* ------------------------------------------------------------- the synchronisation script at rest
\* The other scripts are separate programs: while one of them runs, the
\* synchronisation script is not running.
SyncIdle ==
    /\ pc = "idle"
    /\ runNo = 0
    /\ file = [st |-> "missing", data |-> EmptyMap]
    /\ shopify = [k \in Ids |-> 0]
    /\ job = [status |-> "NONE", creates |-> {}]
    /\ processed_skus = EmptyMap
    /\ urlsLeft = 0 /\ pagesLeft = 0 /\ itemsLeft = 0
    /\ current_jd_skus = {} /\ failed_skus = {} /\ all_product_data = <<>>
    /\ skus_to_delete = {} /\ todo = {}
    /\ successfully_deleted = 0 /\ failed_deletions = 0
    /\ gi = 1
    /\ updates = <<>> /\ creates = <<>> /\ jsonl = <<>>
    /\ latest_processed_skus = EmptyMap
    /\ staged_path = FALSE
    /\ status_info = "unset" /\ query_failed = FALSE
    /\ queries = 0 /\ sleeps = 0 /\ submits = 0
    /\ hist = NoHist

\* ------------------------------------------------------------- strings
\* Python strings are TLA+ strings; s[i] is Char(s, i).
Char(s, i) == SubSeq(s, i, i)

DigitChars == <<"0", "1", "2", "3", "4", "5", "6", "7", "8", "9">>

IsDigit(c) == \E d \in 1..10 : DigitChars[d] = c

DigitValue(c) == (CHOOSE d \in 1..10 : DigitChars[d] = c) - 1

\* the value of a string of decimal digits
RECURSIVE NumeralValue(_)
NumeralValue(s) ==
    IF s = "" THEN 0
    ELSE 10 * NumeralValue(SubSeq(s, 1, Len(s) - 1)) + DigitValue(Char(s, Len(s)))

\* s without its sign
Unsigned(s) ==
    IF Len(s) > 0 /\ Char(s, 1) \in {"-", "+"} THEN SubSeq(s, 2, Len(s)) ELSE s

\* float(s) returns a number: s is an integer numeral, which is what
\* extract_price_data writes, str(math.ceil(...)).  On the other strings
\* drawn here float(s) raises ValueError.
FloatParses(s) ==
    /\ Len(Unsigned(s)) > 0
    /\ \A i \in 1..Len(Unsigned(s)) : IsDigit(Char(Unsigned(s), i))

\* float(s), for an s that parses
Float(s) ==
    IF Len(s) > 0 /\ Char(s, 1) = "-"
    THEN 0 - NumeralValue(Unsigned(s))
    ELSE NumeralValue(Unsigned(s))

\* ------------------------------------------------------------- encoding of one record
\* the comparison that tags equal prices as well
IsDiscounted_NotStrict(p) ==
    IF (p.price # "" /\ ~FloatParses(p.price))
       \/ (p.previousPrice # "" /\ ~FloatParses(p.previousPrice))
    THEN FALSE
    ELSE LET price_val == IF p.price = "" THEN 0 ELSE Float(p.price)
             prev_val == IF p.previousPrice = "" THEN 0 ELSE Float(p.previousPrice)
         IN  prev_val > 0 /\ price_val > 0 /\ prev_val >= price_val

\* lines 254-260 and 337-343: float(x or 0) of both prices, False when
\* either conversion raises
IsDiscounted(p) ==
    IF (p.price # "" /\ ~FloatParses(p.price))
       \/ (p.previousPrice # "" /\ ~FloatParses(p.previousPrice))
    THEN FALSE
    ELSE LET price_val == IF p.price = "" THEN 0 ELSE Float(p.price)
             prev_val == IF p.previousPrice = "" THEN 0 ELSE Float(p.previousPrice)
         IN  prev_val > 0 /\ price_val > 0 /\ prev_val > price_val

\* lines 245-262 and 328-345: the tag list of a line
Tags(p) ==
    <<"uploaded_by_script", "nz-prod", "sku:" \o p.sku, "new",
      p.gender, p.productType, p.brand>>
    \o (IF IsDiscounted(p) THEN <<"discounted">> ELSE <<>>)

\* the price fields drawn: nothing, zero, two prices, a negative amount
\* and a word that is no number
PriceStrings == {"", "0", "100", "150", "-5", "abc"}

\* Any record of the product list: its category and brand are words of the
\* scraped site, none of them the word "discounted".
InitEncode ==
    /\ SyncIdle /\ FinderIdle /\ DeleterIdle
    /\ \E k \in Ids, pr \in PriceStrings, prev \in PriceStrings :
         record = [sku |-> k, name |-> k, price |-> pr, previousPrice |-> prev,
                   gender |-> "Women", productType |-> "Footwear",
                   brand |-> "adidas"]
    /\ line = NoLine

\* lines 241-312: the record is encoded as an update line
EncodeUpdate ==
    /\ line = NoLine
    /\ line' = [op |-> "update", sku |-> record.sku, tags |-> Tags(record)]
    /\ UNCHANGED <<record, syncVars, finderVars, deleterVars>>

\* lines 326-395: the record is encoded as a create line
EncodeCreate ==
    /\ line = NoLine
    /\ line' = [op |-> "create", sku |-> record.sku, tags |-> Tags(record)]
    /\ UNCHANGED <<record, syncVars, finderVars, deleterVars>>

NextEncode ==
    \/ EncodeUpdate
    \/ EncodeCreate

SpecEncode == InitEncode /\ [][NextEncode]_vars

\* ------------------------------------------------------------- duplicate finder
\* find_duplicate_skus.py: fetch_all_products -> find_duplicates ->
\* generate_delete_script (products_to_delete.json)
MaxFetched == 3                 \* products the catalog holds: 0..MaxFetched

\* tag.startswith(prefix)
StartsWith(s, prefix) == Len(s) >= Len(prefix) /\ SubSeq(s, 1, Len(prefix)) = prefix

\* s.replace(old, ""): every occurrence of old, left to right, is removed
RECURSIVE Remove(_, _)
Remove(s, old) ==
    IF Len(s) < Len(old) THEN s
    ELSE IF SubSeq(s, 1, Len(old)) = old
         THEN Remove(SubSeq(s, Len(old) + 1, Len(s)), old)
         ELSE Char(s, 1) \o Remove(SubSeq(s, 2, Len(s)), old)

\* lines 108-112: the value taken from the first tag that starts with
\* "sku:"; None is written "", the test of line 114 takes both as false
SkuFromTag(tags) ==
    LET I == {i \in 1..Len(tags) : StartsWith(tags[i], "sku:")}
    IN  IF I = {} THEN ""
        ELSE Remove(tags[CHOOSE i \in I : \A j \in I : i <= j], "sku:")

\* lines 115-121
GroupEntry(node) ==
    [id |-> node.id, title |-> node.title, created_at |-> node.createdAt,
     sku_tag |-> SkuFromTag(node.tags), tags |-> node.tags]

\* lines 123-128
UntaggedEntry(node) ==
    [id |-> node.id, title |-> node.title, created_at |-> node.createdAt,
     tags |-> node.tags]

\* lines 97-121: by_sku_tag after the loop, a dict: the sequence of its
\* items [sku, products] in the order the keys were inserted
RECURSIVE BySkuTag(_)
BySkuTag(nodes) ==
    IF nodes = <<>> THEN <<>>
    ELSE LET before == BySkuTag(SubSeq(nodes, 1, Len(nodes) - 1))
             node == nodes[Len(nodes)]
             sku_from_tag == SkuFromTag(node.tags)
         IN  IF sku_from_tag = "" THEN before
             ELSE IF \E i \in 1..Len(before) : before[i].sku = sku_from_tag
                  THEN [i \in 1..Len(before) |->
                          IF before[i].sku = sku_from_tag
                          THEN [before[i] EXCEPT !.products = Append(@, GroupEntry(node))]
                          ELSE before[i]]
                  ELSE Append(before, [sku |-> sku_from_tag,
                                       products |-> <<GroupEntry(node)>>])

\* lines 122-128: products_without_sku_tag after the loop
RECURSIVE WithoutSkuTag(_)
WithoutSkuTag(nodes) ==
    IF nodes = <<>> THEN <<>>
    ELSE LET before == WithoutSkuTag(SubSeq(nodes, 1, Len(nodes) - 1))
             node == nodes[Len(nodes)]
         IN  IF SkuFromTag(node.tags) = "" THEN Append(before, UntaggedEntry(node))
             ELSE before

IsDuplicateGroup(item) == Len(item.products) > 1

\* lines 130-133
find_duplicates(nodes) ==
    [by_sku_tag |-> SelectSeq(BySkuTag(nodes), IsDuplicateGroup),
     products_without_sku_tag |-> WithoutSkuTag(nodes)]

\* ord(c) of the characters of a creation timestamp
Ord(c) ==
    CASE c = "-" -> 45
      [] c = ":" -> 58
      [] c = "T" -> 84
      [] c = "Z" -> 90
      [] IsDigit(c) -> 48 + DigitValue(c)

\* a < b on Python strings: the first differing character decides, a proper
\* prefix is smaller
RECURSIVE StrLess(_, _)
StrLess(a, b) ==
    IF b = "" THEN FALSE
    ELSE IF a = "" THEN TRUE
    ELSE IF Char(a, 1) = Char(b, 1)
         THEN StrLess(SubSeq(a, 2, Len(a)), SubSeq(b, 2, Len(b)))
         ELSE Ord(Char(a, 1)) < Ord(Char(b, 1))

\* line 179: sorted(products, key=created_at), a stable sort: an element
\* goes behind every element whose key is not greater than its own
RECURSIVE SortedByCreatedAt(_)
SortedByCreatedAt(entries) ==
    IF entries = <<>> THEN <<>>
    ELSE LET front == SortedByCreatedAt(SubSeq(entries, 1, Len(entries) - 1))
             x == entries[Len(entries)]
             n == Cardinality({i \in 1..Len(front) :
                                 ~StrLess(x.created_at, front[i].created_at)})
         IN  SubSeq(front, 1, n) \o <<x>> \o SubSeq(front, n + 1, Len(front))

\* the oldest member is kept, every later one deleted
ToDelete_KeepOldest(sorted_products) == SubSeq(sorted_products, 2, Len(sorted_products))

\* line 181: sorted_products[:-1]
ToDelete(sorted_products) == SubSeq(sorted_products, 1, Len(sorted_products) - 1)

\* lines 182-187
DeleteEntry(prod, sku) ==
    [id |-> prod.id, title |-> prod.title,
     reason |-> "Duplicate SKU tag: " \o sku, created_at |-> prod.created_at]

\* lines 175-187: products_to_delete after the loop over the groups
RECURSIVE ProductsToDelete(_)
ProductsToDelete(groups) ==
    IF groups = <<>> THEN <<>>
    ELSE LET item == groups[Len(groups)]
             dels == ToDelete(SortedByCreatedAt(item.products))
         IN  ProductsToDelete(SubSeq(groups, 1, Len(groups) - 1))
             \o [i \in 1..Len(dels) |-> DeleteEntry(dels[i], item.sku)]

\* the tag lists of a product of the catalog
TagLists == {<<"new">>, <<"new", "sku:1">>, <<"sku:2", "new">>,
             <<"sku:1", "sku:2">>, <<"sku:">>, <<"sku:sku:1">>}

\* createdAt of the remote is an ISO-8601 timestamp in UTC
Timestamps == {"2023-01-01T00:00:00Z", "2023-06-01T00:00:00Z", "2023-06-01T09:30:00Z"}

\* the product fetched at position i
Node(i, tags, created) ==
    [id |-> "gid://shopify/Product/" \o ToString(i), title |-> "Shoe",
     tags |-> tags, createdAt |-> created]

\* fetch_all_products has returned the catalog: any list of 0..MaxFetched
\* products with distinct ids
InitFind ==
    /\ SyncIdle /\ EncodeIdle /\ DeleterIdle
    /\ finder_pc = "fetched"
    /\ \E n \in 0..MaxFetched :
         \E tg \in [1..n -> TagLists], cr \in [1..n -> Timestamps] :
            all_products = [i \in 1..n |-> Node(i, tg[i], cr[i])]
    /\ shop_products = all_products
    /\ duplicates = NoDuplicates
    /\ products_to_delete = <<>>

\* main, lines 201-206
FindDuplicates ==
    /\ finder_pc = "fetched"
    /\ \/ \* lines 201-203: nothing fetched
          /\ all_products = <<>>
          /\ finder_pc' = "done"
          /\ UNCHANGED duplicates
       \/ /\ all_products # <<>>
          /\ duplicates' = find_duplicates(all_products)
          /\ finder_pc' = "found"
    /\ UNCHANGED <<all_products, products_to_delete, shop_products>>
    /\ UNCHANGED <<syncVars, encodeVars, deleterVars>>

\* main, line 213: generate_delete_script writes products_to_delete.json
GenerateDeleteScript ==
    /\ finder_pc = "found"
    /\ products_to_delete' = ProductsToDelete(duplicates.by_sku_tag)
    /\ finder_pc' = "generated"
    /\ UNCHANGED <<all_products, duplicates, shop_products>>
    /\ UNCHANGED <<syncVars, encodeVars, deleterVars>>

NextFind ==
    \/ FindDuplicates
    \/ GenerateDeleteScript

SpecFind == InitFind /\ [][NextFind]_vars

\* ------------------------------------------------------------- the catalog is fetched
PageLimit == 250                \* products(first: 250), line 18

\* main is started: the remote catalog holds any 0..MaxFetched products
InitFetch ==
    /\ SyncIdle /\ EncodeIdle /\ DeleterIdle
    /\ finder_pc = "fetching"
    /\ \E n \in 0..MaxFetched :
         \E tg \in [1..n -> TagLists] :
            shop_products = [i \in 1..n |-> Node(i, tg[i], "2023-01-01T00:00:00Z")]
    /\ all_products = <<>>
    /\ duplicates = NoDuplicates
    /\ products_to_delete = <<>>

\* fetch_all_products, lines 54-90: one turn of the loop.  The remote
\* answers with the next products of the catalog, at most PageLimit of
\* them, and tells whether more follow; the script relies on hasNextPage
\* alone.
FetchProducts ==
    /\ finder_pc = "fetching"
    /\ \/ \* lines 65-74: the request failed or the answer has errors, break
          /\ finder_pc' = "fetched"
          /\ UNCHANGED all_products
       \/ \* lines 76-87
          \E k \in 0..Min(PageLimit, Len(shop_products) - Len(all_products)) :
             /\ k > 0 \/ shop_products = <<>>
             /\ all_products' = all_products
                    \o SubSeq(shop_products, Len(all_products) + 1, Len(all_products) + k)
             /\ finder_pc' = IF Len(all_products') < Len(shop_products)
                             THEN "fetching" ELSE "fetched"
    /\ UNCHANGED <<duplicates, products_to_delete, shop_products>>
    /\ UNCHANGED <<syncVars, encodeVars, deleterVars>>

NextFetch ==
    \/ FetchProducts
    \/ FindDuplicates
    \/ GenerateDeleteScript

SpecFetch == InitFetch /\ [][NextFetch]_vars

\* ------------------------------------------------------------- duplicate deleter
\* delete_duplicate_products.py: read products_to_delete.json -> confirm ->
\* delete one by one, sleeping between requests -> deletion_log.json every
\* CheckpointEvery products and at the end.  The clock is not modelled: the
\* timestamps of the log are left out.
CheckpointEvery == 50           \* line 139

\* lengths of the list in products_to_delete.json
ListLengths == {0, 1, 2, CheckpointEvery, CheckpointEvery + 1, 2 * CheckpointEvery}

\* positions of the list whose delete may fail (a transport error, GraphQL
\* errors, userErrors); every other delete succeeds
MayFail == {1, 2, CheckpointEvery, CheckpointEvery + 1}

\* what the operator may type at the prompt
Typed == {"DELETE", "delete", "DELETE ", "", "y"}

\* sys.argv[1], "" when there is none
Arguments == {"", "--preview", "--dry-run"}

ProductId(i) == "gid://shopify/Product/" \o ToString(i)

\* an element of products_to_delete.json, as generate_delete_script wrote it
ListedProduct(i) ==
    [id |-> ProductId(i), title |-> "Shoe", reason |-> "Duplicate SKU tag: 1"]

\* a log left by an earlier run
OldLog == [total_products |-> 1,
           successful_deletions |-> <<ListedProduct(0)>>,
           failed_deletions |-> <<>>, completed_at |-> TRUE]

\* the script is started: any argument, any input file, a log of an
\* earlier run or none; the catalog holds the listed products and one more
InitDelete ==
    /\ SyncIdle /\ EncodeIdle /\ FinderIdle
    /\ deleter_pc = "start"
    /\ argv \in Arguments
    /\ \/ \E st \in {"missing", "invalid"} : input_file = [st |-> st, list |-> <<>>]
       \/ \E n \in ListLengths :
            input_file = [st |-> "whole", list |-> [i \in 1..n |-> ListedProduct(i)]]
    /\ file_products = <<>> /\ confirmation = ""
    /\ idx = 0
    /\ deletion_log = NoLog
    /\ log_file \in {NoLogFile, [st |-> "whole", log |-> OldLog]}
    /\ successful = 0 /\ failed = 0
    /\ catalog = {ProductId(i) : i \in 0..Len(input_file.list)}
    /\ dhist = [NoDhist EXCEPT !.fileAtStart = log_file, !.catalogAtStart = catalog]

\* any input that is not empty confirms
Confirmed_AnyInput(typed) == typed # ""

\* line 83
Confirmed(typed) == typed = "DELETE"

\* the failure is counted but not logged
LogFailure_Dropped(log, prod) == log

\* lines 125-131
LogFailure(log, prod) ==
    [log EXCEPT !.failed_deletions =
        Append(@, [id |-> prod.id, title |-> prod.title, reason |-> prod.reason,
                   error |-> "error"])]

\* lines 116-121
LogSuccess(log, prod) ==
    [log EXCEPT !.successful_deletions =
        Append(@, [id |-> prod.id, title |-> prod.title, reason |-> prod.reason])]

\* lines 201-203 and 160-191: preview mode reads the list and prints
PreviewDeletions ==
    /\ deleter_pc = "start" /\ argv = "--preview"
    /\ deleter_pc' = "done"
    /\ UNCHANGED <<argv, input_file, file_products, confirmation, idx, deletion_log,
                   log_file, successful, failed, catalog, dhist>>
    /\ UNCHANGED <<syncVars, encodeVars, finderVars>>

\* lines 204-206 and 65-77: the list is read
ReadInput ==
    /\ deleter_pc = "start" /\ argv # "--preview"
    /\ \/ \* lines 69-74: no file, or no JSON in it
          /\ input_file.st # "whole"
          /\ deleter_pc' = "done"
          /\ UNCHANGED file_products
       \/ /\ input_file.st = "whole"
          /\ file_products' = input_file.list
          /\ deleter_pc' = "confirm"
    /\ UNCHANGED <<argv, input_file, confirmation, idx, deletion_log, log_file,
                   successful, failed, catalog, dhist>>
    /\ UNCHANGED <<syncVars, encodeVars, finderVars>>

\* lines 79-99: the prompt
Confirm ==
    /\ deleter_pc = "confirm"
    /\ \E typed \in Typed :
         /\ confirmation' = typed
         /\ IF Confirmed(typed)
            THEN /\ deletion_log' = [NoLog EXCEPT !.total_products = Len(file_products)]
                 /\ deleter_pc' = IF Len(file_products) = 0 THEN "final" ELSE "delete"
            ELSE /\ deleter_pc' = "done"
                 /\ UNCHANGED deletion_log
    /\ UNCHANGED <<argv, input_file, file_products, idx, log_file, successful,
                   failed, catalog, dhist>>
    /\ UNCHANGED <<syncVars, encodeVars, finderVars>>

\* where the loop body goes after its sleep, lines 138-139 and 102
AfterSleep(i, total_products) ==
    IF i % CheckpointEvery = 0 THEN "checkpoint"
    ELSE IF i < total_products THEN "delete" ELSE "final"

\* lines 102-131: delete_product for the next product of the list
DeleteProduct ==
    /\ deleter_pc = "delete" /\ idx < Len(file_products)
    /\ idx' = idx + 1
    /\ LET prod == file_products[idx + 1]
       IN  \/ \* lines 113-121
              /\ catalog' = catalog \ {prod.id}
              /\ successful' = successful + 1
              /\ deletion_log' = LogSuccess(deletion_log, prod)
              /\ UNCHANGED failed
           \/ \* lines 122-131
              /\ (idx + 1) \in MayFail
              /\ failed' = failed + 1
              /\ deletion_log' = LogFailure(deletion_log, prod)
              /\ UNCHANGED <<catalog, successful>>
    /\ dhist' = [dhist EXCEPT !.calls = @ + 1, !.lastStep = "call",
                              !.backToBack = @ \/ dhist.lastStep = "call"]
    /\ deleter_pc' = IF idx' < Len(file_products) THEN "sleep"
                     ELSE AfterSleep(idx', Len(file_products))
    /\ UNCHANGED <<argv, input_file, file_products, confirmation, log_file>>
    /\ UNCHANGED <<syncVars, encodeVars, finderVars>>

\* lines 133-136: time.sleep(0.6) when another product follows
RateLimit ==
    /\ deleter_pc = "sleep"
    /\ dhist' = [dhist EXCEPT !.lastStep = "sleep"]
    /\ deleter_pc' = AfterSleep(idx, Len(file_products))
    /\ UNCHANGED <<argv, input_file, file_products, confirmation, idx, deletion_log,
                   log_file, successful, failed, catalog>>
    /\ UNCHANGED <<syncVars, encodeVars, finderVars>>

\* lines 140-141 and 146-148: open(log_file, "w") truncates the log
OpenLog ==
    /\ deleter_pc \in {"checkpoint", "final"}
    /\ deletion_log' = [deletion_log EXCEPT !.completed_at = TRUE]
    /\ log_file' = [st |-> "partial", log |-> NoLog]
    /\ dhist' = [dhist EXCEPT !.writes = @ + 1,
                              !.checkpoint = IF deleter_pc = "checkpoint" THEN idx ELSE @]
    /\ deleter_pc' = IF deleter_pc = "checkpoint" THEN "checkpoint_dump" ELSE "final_dump"
    /\ UNCHANGED <<argv, input_file, file_products, confirmation, idx, successful,
                   failed, catalog>>
    /\ UNCHANGED <<syncVars, encodeVars, finderVars>>

\* lines 142-143 and 149: json.dump, the file is closed
DumpLog ==
    /\ deleter_pc \in {"checkpoint_dump", "final_dump"}
    /\ log_file' = [st |-> "whole", log |-> deletion_log]
    /\ deleter_pc' = IF deleter_pc = "final_dump" THEN "done"
                     ELSE IF idx < Len(file_products) THEN "delete" ELSE "final"
    /\ UNCHANGED <<argv, input_file, file_products, confirmation, idx, deletion_log,
                   successful, failed, catalog, dhist>>
    /\ UNCHANGED <<syncVars, encodeVars, finderVars>>

DeleterRunPcs == {"confirm", "delete", "sleep", "checkpoint", "checkpoint_dump",
                  "final", "final_dump"}

\* The process dies (a kill, an uncaught exception) anywhere in a run; a
\* log that was opened and not yet closed stays truncated.
DeleterCrash ==
    /\ deleter_pc \in DeleterRunPcs
    /\ deleter_pc' = "crashed"
    /\ UNCHANGED <<argv, input_file, file_products, confirmation, idx, deletion_log,
                   log_file, successful, failed, catalog, dhist>>
    /\ UNCHANGED <<syncVars, encodeVars, finderVars>>

NextDelete ==
    \/ PreviewDeletions
    \/ ReadInput
    \/ Confirm
    \/ DeleteProduct
    \/ RateLimit
    \/ OpenLog
    \/ DumpLog
    \/ DeleterCrash

SpecDelete == InitDelete /\ [][NextDelete]_vars

\* ------------------------------------------------------------- properties
previousIds == Keys(hist.fileAtStart.data)
currentIds == current_jd_skus
createIds == Skus(creates)
updateIds == Skus(updates)
scrapedIds == Skus(all_product_data)

\* the classification of the run is complete (generate_product_jsonl returned)
Classified == pc \in {"save_open", "save_dump", "staged", "upload", "wait", "submit", "done"}

PairwiseDisjoint ==
    /\ createIds \cap updateIds = {}
    /\ createIds \cap skus_to_delete = {}
    /\ updateIds \cap skus_to_delete = {}

\* C1 as claimed: after the reconciliation the create, update and deletion
\* identifier sets are pairwise disjoint and their union is
\* currentIds \cup (previousIds \ currentIds), currentIds being every
\* identifier seen in the listings.
C1_PartitionAsClaimed ==
    Classified =>
        /\ PairwiseDisjoint
        /\ createIds \cup updateIds \cup skus_to_delete
             = currentIds \cup (previousIds \ currentIds)

\* C1 amended: the three sets are pairwise disjoint and their union is
\* scrapedIds \cup (previousIds \ currentIds), where scrapedIds =
\* currentIds \ failed_skus are the identifiers whose product page was
\* scraped into a record; a failed identifier is in none of the three sets.
C1_Partition ==
    Classified =>
        /\ PairwiseDisjoint
        /\ scrapedIds = currentIds \ failed_skus
        /\ createIds \cup updateIds \cup skus_to_delete
             = scrapedIds \cup (previousIds \ currentIds)
        /\ failed_skus \cap (createIds \cup updateIds \cup skus_to_delete) = {}

C1_Witness ==
    /\ Classified
    /\ createIds # {} /\ updateIds # {} /\ skus_to_delete # {} /\ failed_skus # {}
    /\ previousIds \cap failed_skus # {}

\* The reference classification of section 4.1, from the identity store as
\* it was read, the scraped records and the lookup outcomes of the run.
RefDeletions == previousIds \ currentIds
RefUpdates == {k \in scrapedIds : k \in previousIds /\ k \in hist.found}
RefCreates == {k \in scrapedIds : k \notin previousIds \/ k \notin hist.found}

\* C2: the reconciler's result is the reference classification: deletions
\* = keys(identity) \ currentIds; a record whose identifier is in
\* keys(identity) is looked up and is an Update when the lookup returned an
\* id, a Create when it returned nothing; a record whose identifier is not
\* in keys(identity) is a Create without any lookup.  Identity {A,B,C} with
\* scrape {B,C,D} and successful lookups gives deletions {A}, creates {D},
\* updates {B,C}.
C2_Reference ==
    Classified =>
        /\ skus_to_delete = RefDeletions
        /\ updateIds = RefUpdates
        /\ createIds = RefCreates
        /\ hist.lookedUp = scrapedIds \cap previousIds
        /\ (/\ previousIds = {"A", "B", "C"}
            /\ scrapedIds = {"B", "C", "D"} /\ currentIds = {"B", "C", "D"}
            /\ hist.found = {"B", "C"})
           => (skus_to_delete = {"A"} /\ createIds = {"D"} /\ updateIds = {"B", "C"})

C2_Witness ==
    /\ Classified
    /\ previousIds = {"A", "B", "C"}
    /\ scrapedIds = {"B", "C", "D"} /\ currentIds = {"B", "C", "D"}
    /\ hist.found = {"B", "C"}
    /\ skus_to_delete = {"A"} /\ createIds = {"D"} /\ updateIds = {"B", "C"}

\* C3 as claimed: after a completed run the key set of the persisted
\* identity store is exactly currentIds, the identifiers seen in the
\* listings, those whose product page could not be scraped included.
C3_StoreIsCurrentIds ==
    pc = "done" => (file.st = "whole" /\ Keys(file.data) = currentIds)

\* C10: products.jsonl holds one line per decision, the update lines first,
\* in the order of their records in the input, then the create lines, in
\* the order of their records in the input.
IsUpdate(p) == p.sku \in hist.found
IsCreate(p) == p.sku \notin hist.found

C10_UpdatesThenCreates ==
    Classified =>
        LET U == SelectSeq(all_product_data, IsUpdate)
            C == SelectSeq(all_product_data, IsCreate)
        IN  /\ Len(updates) = Len(U) /\ Len(creates) = Len(C)
            /\ Len(jsonl) = Len(updates) + Len(creates)
            /\ \A i \in 1..Len(U) : jsonl[i] = [op |-> "update", sku |-> U[i].sku]
            /\ \A i \in 1..Len(C) :
                 jsonl[Len(U) + i] = [op |-> "create", sku |-> C[i].sku]
            /\ \A i, j \in 1..Len(jsonl) :
                 (jsonl[i].op = "update" /\ jsonl[j].op = "create") => i < j

\* two updates and two creates, interleaved in the input
C10_Witness ==
    /\ Classified
    /\ Len(updates) = 2 /\ Len(creates) = 2 /\ Len(jsonl) = 4
    /\ all_product_data[1].sku \notin hist.found
    /\ all_product_data[2].sku \in hist.found
    /\ all_product_data[3].sku \notin hist.found
    /\ all_product_data[4].sku \in hist.found

\* ------------------------------------------------------------- two runs
\* This run repeats the scrape result of the previous run, which ran to its
\* end and wrote the store this run read, and the catalog did not change
\* between the two classifications.
SecondRunSameScrape ==
    /\ runNo >= 2 /\ Classified
    /\ hist.prevDone /\ hist.fileAtStart.st = "whole"
    /\ currentIds = hist.prevCurrent
    /\ scrapedIds = previousIds
    /\ ~hist.changedAtGen

\* C4 as claimed: in the second of two runs with the same scrape result and
\* no remote change, every record is an Update, none a Create, and the
\* deletion set is empty.
C4_AllUpdatesAsClaimed ==
    SecondRunSameScrape =>
        (skus_to_delete = {} /\ createIds = {} /\ updateIds = scrapedIds)

\* C4 amended: in the second run the deletion set is empty and every
\* record is looked up remotely; it is an Update exactly when the lookup
\* returned an id and a Create otherwise.
C4_SecondRun ==
    SecondRunSameScrape =>
        /\ skus_to_delete = {}
        /\ hist.lookedUp = scrapedIds
        /\ updateIds = hist.found
        /\ createIds = scrapedIds \ hist.found

C4_Witness ==
    /\ SecondRunSameScrape
    /\ updateIds # {} /\ createIds # {}

\* ------------------------------------------------------------- admission gate
\* C5 as claimed: the bulk mutation is requested only after a status query
\* has reported no current job or a terminal job, never when the last
\* answer was CREATED or RUNNING and never when the script did not learn
\* the state of the remote job because the query failed.
C5_SubmitOnlyWhenIdleKnown ==
    submits > 0 =>
        /\ queries > 0
        /\ status_info \in {"None"} \cup TerminalStatuses
        /\ ~query_failed

\* The gate has returned.
GateReturned == pc = "submit" \/ (pc = "done" /\ submits > 0)

\* C6: when the status queries answered CREATED or RUNNING n times and then
\* no job or a terminal status, the wait slept n times and queried n + 1
\* times, none of it when the first answer was no job or a terminal job;
\* the mutation is then requested exactly once.
C6_SleepPollCycles ==
    /\ hist.otherSeen = 0 => sleeps = hist.activeSeen
    /\ (GateReturned /\ hist.otherSeen = 0) => queries = hist.activeSeen + 1
    /\ (pc = "wait" /\ hist.otherSeen = 0) => queries = hist.activeSeen
    /\ (pc = "submit") => submits = 0
    /\ (pc = "done" /\ staged_path) => submits = 1
    /\ submits <= 1

\* three sleep-poll cycles, then COMPLETED, then one submit
C6_Witness ==
    /\ pc = "done" /\ submits = 1
    /\ hist.activeSeen = 3 /\ hist.otherSeen = 0 /\ sleeps = 3 /\ queries = 4
    /\ status_info = "COMPLETED" /\ ~query_failed

\* ------------------------------------------------------------- identity store file
\* C8 as claimed: the file always holds a complete mapping, the one the run
\* found or the one the run built; never an empty or truncated file.
C8_AtomicReplace ==
    runNo >= 1 =>
        \/ file = hist.fileAtStart
        \/ (file.st = "whole" /\ file.data = latest_processed_skus /\ hist.saved)

PerItemCalls == {"lookup", "delete"}
UploadCalls == {"staged", "upload", "status", "submit"}

SlotFree == job.status \in {"NONE"} \cup TerminalStatuses

\* C7: the wait has no retry cap.  It returns only on a query that failed or
\* reported no job or a terminal job; a query that reports no job or a
\* terminal job makes it return at once; a query that reports CREATED or
\* RUNNING makes it sleep and query again, however often that has happened;
\* and when the remote job reaches a terminal state and stays there, the
\* wait returns and the mutation is requested.
C7_NoRetryCap ==
    /\ [][(pc = "wait" /\ pc' = "submit") =>
             (query_failed' \/ status_info' \in {"None"} \cup TerminalStatuses)]_vars
    /\ [][(pc = "wait" /\ queries' # queries /\ ~query_failed' /\ SlotFree) =>
             pc' = "submit"]_vars
    /\ [][(pc = "wait" /\ queries' # queries /\ ~query_failed'
              /\ job.status \in ActiveStatuses) =>
             (pc' = "wait" /\ sleeps' = sleeps + 1)]_vars
    /\ (<>[]SlotFree) => <>(submits = 1)

\* the wait slept as often as the model follows it, then returned
C7_Witness ==
    /\ pc = "done" /\ submits = 1
    /\ sleeps = MaxSleeps /\ hist.activeSeen = MaxSleeps
    /\ status_info \in TerminalStatuses

\* ------------------------------------------------------------- discount tag
\* what the drawn price fields say: an amount, or none
HasAmount == {"0", "100", "150", "-5"}
Amount == [s \in HasAmount |->
             CASE s = "0" -> 0 [] s = "100" -> 100 [] s = "150" -> 150 [] s = "-5" -> 0 - 5]

\* previousPrice > price and both are positive
PriceDropped(p) ==
    /\ p.price \in HasAmount /\ p.previousPrice \in HasAmount
    /\ Amount[p.price] > 0 /\ Amount[p.previousPrice] > 0
    /\ Amount[p.previousPrice] > Amount[p.price]

\* C11: every encoded line, update or create, carries the tag "discounted"
\* if and only if previousPrice > price and both are positive; price 100
\* with previousPrice 150 carries it, an empty previousPrice or a
\* previousPrice <= price does not.
C11_DiscountTag ==
    line.op \in {"update", "create"} =>
        /\ ("discounted" \in Range(line.tags)) <=> PriceDropped(record)
        /\ (record.price = "100" /\ record.previousPrice = "150")
             => "discounted" \in Range(line.tags)
        /\ (record.previousPrice = "") => "discounted" \notin Range(line.tags)
        /\ (record.price = "150" /\ record.previousPrice \in {"100", "150"})
             => "discounted" \notin Range(line.tags)

C11_Witness ==
    /\ line.op = "create"
    /\ record.price = "100" /\ record.previousPrice = "150"
    /\ line.tags[Len(line.tags)] = "discounted"

\* ------------------------------------------------------------- duplicate selection
\* when the drawn timestamps are, in minutes after the first of them
Instant(ts) ==
    CASE ts = "2023-01-01T00:00:00Z" -> 0
      [] ts = "2023-06-01T00:00:00Z" -> 217440
      [] ts = "2023-06-01T09:30:00Z" -> 218010

\* the member of a group that the claim retains: created latest, and among
\* those created latest the last one fetched
Retained(members) ==
    LET i == CHOOSE i \in 1..Len(members) :
                 /\ \A j \in 1..Len(members) :
                      Instant(members[j].created_at) <= Instant(members[i].created_at)
                 /\ \A j \in (i + 1)..Len(members) :
                      Instant(members[j].created_at) < Instant(members[i].created_at)
    IN  members[i]

ListedFor(sku) ==
    SelectSeq(products_to_delete, LAMBDA e : e.reason = "Duplicate SKU tag: " \o sku)

EntryIds(entries) == {entries[i].id : i \in 1..Len(entries)}

DesignatedTag(node) ==
    node.tags[CHOOSE i \in 1..Len(node.tags) :
                 /\ StartsWith(node.tags[i], "sku:")
                 /\ \A j \in 1..(i - 1) : ~StartsWith(node.tags[j], "sku:")]

\* the product carries a tag of the form sku:VALUE, VALUE not empty
HasSkuTag(node) ==
    /\ \E i \in 1..Len(node.tags) : StartsWith(node.tags[i], "sku:")
    /\ Len(DesignatedTag(node)) > Len("sku:")

\* VALUE of the designated tag: what follows the prefix
TagValue(node) == SubSeq(DesignatedTag(node), Len("sku:") + 1, Len(DesignatedTag(node)))

\* the ids, in fetch order, of the products that carry tag value v
CarriersOf(v) ==
    LET carries(node) == HasSkuTag(node) /\ TagValue(node) = v
        sel == SelectSeq(all_products, carries)
    IN  [i \in 1..Len(sel) |-> sel[i].id]

\* C13 as claimed: the duplicate mapping holds exactly the tag values that
\* more than one product carries, each mapped to all the products carrying
\* it, in fetch order; every product without such a tag is in
\* products_without_sku_tag and in no group; no product is in two groups.
C13_PartitionByTag ==
    finder_pc \in {"found", "generated"} =>
        LET groups == duplicates.by_sku_tag
            G == 1..Len(groups)
            tagged == {i \in 1..Len(all_products) : HasSkuTag(all_products[i])}
        IN  /\ {groups[g].sku : g \in G}
                 = {TagValue(all_products[i]) : i \in {k \in tagged : Len(CarriersOf(TagValue(all_products[k]))) > 1}}
            /\ \A g \in G :
                 [i \in 1..Len(groups[g].products) |-> groups[g].products[i].id]
                    = CarriersOf(groups[g].sku)
            /\ \A i \in 1..Len(all_products) :
                 i \notin tagged =>
                    /\ all_products[i].id \in EntryIds(duplicates.products_without_sku_tag)
                    /\ \A g \in G : all_products[i].id \notin EntryIds(groups[g].products)
            /\ \A g, h \in G :
                 g # h => EntryIds(groups[g].products) \cap EntryIds(groups[h].products) = {}

\* ------------------------------------------------------------- failure isolation
\* C14 as claimed: whatever goes wrong while one listing item is scraped,
\* a missing dataObject on its product page included, the record is
\* skipped and the scrape goes on: the step that takes up a new item
\* leaves the run in the scrape loop (the next item, page or URL, then the
\* reconciliation).
C14_RecordFailureNeverAborts ==
    [][(pc = "item" /\ current_jd_skus' # current_jd_skus)
          => pc' \in {"item", "page", "url"}]_vars

\* ------------------------------------------------------------- deletion by absence
\* delete_products_from_shopify has returned
DeleteReturned ==
    skus_to_delete # {} /\ pc \in {"generate", "save_open", "save_dump", "staged"}

\* C15: delete_products_from_shopify attempts every identifier of the
\* deletion set once, whatever the outcome for the earlier ones: while the
\* loop runs every identifier it has taken is counted once, as deleted or
\* as failed, on return successfully_deleted + failed_deletions is the size
\* of the deletion set, and the run goes on to generate_product_jsonl.
C15_EveryIdentifierAttempted ==
    /\ [](todo \subseteq skus_to_delete)
    /\ [](pc = "delete" =>
            successfully_deleted + failed_deletions = Cardinality(skus_to_delete \ todo))
    /\ [](DeleteReturned =>
            (todo = {} /\ successfully_deleted + failed_deletions = Cardinality(skus_to_delete)))
    /\ [][(pc = "delete" /\ todo # {}) =>
             (pc' = "delete" /\ Cardinality(todo') = Cardinality(todo) - 1)]_vars
    /\ [][(pc = "delete" /\ todo = {}) => pc' = "generate"]_vars

\* a lookup miss or failed delete first, then a deletion, then a failure
C15_Witness ==
    /\ pc = "generate" /\ gi = 1
    /\ Cardinality(skus_to_delete) = 4
    /\ successfully_deleted = 2 /\ failed_deletions = 2
    /\ hist.callsBefore = {"lookup", "delete"}

\* ------------------------------------------------------------- confirmation gate
\* the run has left the remote catalog and the log file as it found them
NothingDone ==
    /\ dhist.calls = 0 /\ catalog = dhist.catalogAtStart
    /\ dhist.writes = 0 /\ log_file = dhist.fileAtStart

\* C16: no productDelete request is made and the deletion log is not
\* written unless the operator typed exactly DELETE; any other input, and
\* preview mode, leave the remote catalog and the log file unchanged.
C16_ConfirmationGate ==
    /\ (confirmation # "DELETE") => NothingDone
    /\ (argv = "--preview") => (NothingDone /\ confirmation = "")

\* the operator typed "delete" for a list of two products: the run ended
\* and nothing was done
C16_Witness ==
    /\ deleter_pc = "done"
    /\ confirmation = "delete" /\ Len(file_products) = 2
    /\ NothingDone /\ catalog = {ProductId(0), ProductId(1), ProductId(2)}

\* ------------------------------------------------------------- deletion log
\* position of a product in the input list
PositionOf(id) == CHOOSE i \in 1..Len(file_products) : file_products[i].id = id

InInputOrder(entries) ==
    \A i, j \in 1..Len(entries) :
        i < j => PositionOf(entries[i].id) < PositionOf(entries[j].id)

\* delete_products_from_file ran to its end
DeleterCompleted == deleter_pc = "done" /\ confirmation = "DELETE"

\* C17: after delete_products_from_file completes the log file holds one
\* entry for every product of the input list, in successful_deletions when
\* its delete succeeded and in failed_deletions otherwise, each list in
\* input order; the lists are disjoint, their lengths sum to
\* total_products and are the counters of the summary.
C17_LogPartition ==
    DeleterCompleted =>
        LET log == log_file.log
            ok == EntryIds(log.successful_deletions)
            ko == EntryIds(log.failed_deletions)
        IN  /\ log_file.st = "whole" /\ log = deletion_log /\ log.completed_at
            /\ log.total_products = Len(file_products)
            /\ ok \cap ko = {}
            /\ ok \cup ko = EntryIds(file_products)
            /\ Len(log.successful_deletions) + Len(log.failed_deletions) = log.total_products
            /\ Len(log.successful_deletions) = successful
            /\ Len(log.failed_deletions) = failed
            /\ InInputOrder(log.successful_deletions)
            /\ InInputOrder(log.failed_deletions)
            /\ ok = dhist.catalogAtStart \ catalog
            /\ ko \subseteq catalog

\* 51 products, the second and the last of them failed
C17_Witness ==
    /\ DeleterCompleted
    /\ Len(file_products) = CheckpointEvery + 1
    /\ EntryIds(log_file.log.failed_deletions)
         = {ProductId(2), ProductId(CheckpointEvery + 1)}
    /\ successful = CheckpointEvery - 1 /\ failed = 2

\* ------------------------------------------------------------- checkpoints
\* the attempts the log file records
Recorded ==
    EntryIds(log_file.log.successful_deletions) \cup EntryIds(log_file.log.failed_deletions)

\* C18 as claimed: when delete_products_from_file crashes, at any point,
\* after a checkpoint (every 50th product), the log file exists and holds
\* the outcome of the attempts made up to the last checkpoint.
C18_CrashKeepsCheckpoint ==
    (deleter_pc = "crashed" /\ dhist.checkpoint > 0) =>
        /\ log_file.st = "whole"
        /\ {ProductId(i) : i \in 1..dhist.checkpoint} \subseteq Recorded

\* ------------------------------------------------------------- rate limit
\* C19 as claimed: between any two successive per-item remote calls of a
\* run, the lookups and deletes of delete_products_from_shopify, the
\* lookups of generate_product_jsonl and the deletes of
\* delete_products_from_file, the run sleeps; no two of them are made back
\* to back.
C19_DelayBetweenCalls ==
    /\ "delete" \notin hist.backToBack
    /\ "generate" \notin hist.backToBack
    /\ ~dhist.backToBack

\* the part of C19 that delete_products_from_file keeps
DeleterSleepsBetweenCalls == ~dhist.backToBack

\* ------------------------------------------------------------- fresh start
\* the run found no identity store it could read
NoStoreRead == runNo >= 1 /\ hist.fileAtStart.st # "whole"

\* C20 as claimed: a run that finds the identity store missing or
\* unreadable does not abort: it starts the scrape with an empty mapping,
\* its deletion set is empty, it requests no lookup and no delete, and
\* every scraped record is a Create.
C20_StartsFresh ==
    /\ [][(runNo' = runNo + 1 /\ file.st # "whole")
             => (pc' = "url" /\ processed_skus' = EmptyMap)]_vars
    /\ [](NoStoreRead =>
            /\ processed_skus = EmptyMap
            /\ skus_to_delete = {}
            /\ successfully_deleted = 0 /\ failed_deletions = 0
            /\ (hist.callsBefore \cup hist.callsAfter) \cap PerItemCalls = {}
            /\ updates = <<>>
            /\ (Classified => createIds = scrapedIds))

\* ------------------------------------------------------------- unique identifiers
DistinctSkus(q) == \A i, j \in 1..Len(q) : i # j => q[i].sku # q[j].sku

C22_NoDuplicateProducts == \A k \in Ids : shopify[k] <= 1

\* ------------------------------------------------------------- deletion only of what is gone
\* What the listings skipped in this run would have shown is not known to
\* the run: any previously known identifiers that no fetched listing showed.
WouldHaveAppeared == SUBSET (Keys(processed_skus) \ current_jd_skus)

\* C23 as claimed: when the scrape loop skipped a listing URL or a listing
\* page, whatever previously known products that listing would have shown,
\* none of them is placed in the deletion set; and a product is deleted
\* remotely only when its identifier is in the deletion set.
C23_SkippedListingKeepsProducts ==
    /\ [][(pc = "url" /\ pc' \in {"delete", "generate"} /\ hist.listingSkipped) =>
             \A missed \in WouldHaveAppeared : missed \cap skus_to_delete' = {}]_vars
    /\ [][\A k \in Ids : shopify'[k] < shopify[k] => k \in skus_to_delete]_vars

\* the part of C23 that holds: a listing page that cannot be fetched ends
\* the run (sys.exit) before anything is deleted
ExitDeletesNothing ==
    pc = "exited" => (skus_to_delete = {} /\ successfully_deleted = 0)

\* ------------------------------------------------------------- removals are retried
\* C24 as claimed: an identifier whose remote delete failed in a run that
\* ran to its end is still known to the next run, which loads an identity
\* store that holds it, so that the identifier, still absent from the
\* scrape, is in the deletion set again and its remote product is deleted
\* once a delete succeeds.
C24_FailedDeleteRetried ==
    [][(pc = "done" /\ runNo' = runNo + 1) =>
          hist.deleteFailed \subseteq Keys(processed_skus')]_vars

\* ------------------------------------------------------------- order of the upload
\* the kinds of remote call a run has made
CallsOf(h) == h.callsBefore \cup h.callsAfter

\* products.jsonl holds the batch of this run
BatchWritten == gi > Len(all_product_data) /\ jsonl = JsonlLines(updates, creates)

\* C25: bulkOperationRunMutation is requested at most once in a run, and
\* only after products.jsonl was written, then a staged upload target was
\* requested, then the upload returned a reference key, then the status
\* was queried; a run whose scrape gave no record, whose staged-upload
\* request failed or whose upload returned no key queries no status and
\* submits nothing.
C25_SubmitAfterUpload ==
    /\ [](submits <= 1)
    /\ [][("staged" \notin CallsOf(hist) /\ "staged" \in CallsOf(hist')) =>
             (pc = "staged" /\ BatchWritten /\ all_product_data # <<>>)]_vars
    /\ [][("upload" \notin CallsOf(hist) /\ "upload" \in CallsOf(hist')) =>
             (pc = "upload" /\ "staged" \in CallsOf(hist) /\ BatchWritten)]_vars
    /\ [][(queries' > queries \/ submits' > submits) =>
             (staged_path /\ {"staged", "upload"} \subseteq CallsOf(hist)
              /\ BatchWritten /\ all_product_data # <<>>)]_vars
    /\ [][submits' > submits => (pc = "submit" /\ queries >= 1)]_vars
    /\ []((pc = "done" /\ ~staged_path) => (queries = 0 /\ submits = 0))
    /\ []((pc = "done" /\ all_product_data = <<>>) =>
             CallsOf(hist) \cap UploadCalls = {})

\* a batch of two lines was written, staged, uploaded and submitted once
C25_Witness ==
    /\ pc = "done" /\ submits = 1 /\ queries >= 1 /\ staged_path
    /\ Len(jsonl) = 2 /\ BatchWritten
    /\ UploadCalls \subseteq CallsOf(hist)

\* ------------------------------------------------------------- completed_at
\* the log file was written by this run and holds a complete log
LogOnDisk == dhist.writes >= 1 /\ log_file.st = "whole"

\* the attempts the log on disk records are fewer than the products of the
\* input: it was written before the last product was processed
WrittenBeforeTheEnd ==
    Len(log_file.log.successful_deletions) + Len(log_file.log.failed_deletions)
        < log_file.log.total_products

\* C26 as claimed: a log written before the last product of the input was
\* processed has completed_at null, so that the log a crashed run leaves
\* behind is told from the log of a finished run by its completed_at.
C26_CompletedAtOnlyAtTheEnd ==
    /\ (LogOnDisk /\ WrittenBeforeTheEnd) => ~log_file.log.completed_at
    /\ (LogOnDisk /\ deleter_pc = "crashed" /\ idx < Len(file_products))
          => ~log_file.log.completed_at

\* ------------------------------------------------------------- complete snapshot
\* fetch_all_products has returned
FetchReturned == finder_pc \in {"fetched", "found", "generated", "done"}

\* it returned every product of the catalog: no page fetch failed
SnapshotComplete == all_products = shop_products

\* C27 as claimed: when the fetch of a catalog page failed, main performs
\* no duplicate analysis and writes neither duplicate_products.json nor
\* products_to_delete.json from the pages fetched before.
C27_OnlyCompleteSnapshot ==
    (FetchReturned /\ ~SnapshotComplete) =>
        /\ finder_pc \in {"fetched", "done"}
        /\ duplicates = NoDuplicates
        /\ products_to_delete = <<>>

\* the part of C27 that holds: when the first page cannot be fetched
\* nothing is analysed and nothing written
NothingFetchedNothingWritten ==
    (FetchReturned /\ all_products = <<>>) =>
        /\ finder_pc \in {"fetched", "done"}
        /\ duplicates = NoDuplicates
        /\ products_to_delete = <<>>

====
